---- MODULE Spec2Model ----
(***************************************************************************)
(* Model of src/app.py, the "AIAG PPAP Analyzer Suite" Streamlit script.   *)
(*                                                                         *)
(* A Streamlit script is executed from its first to its last line on page  *)
(* load and again after every widget interaction (a "script run").  An     *)
(* exception nobody catches ends the run: Streamlit shows the exception    *)
(* and nothing below the raising statement is executed.  The file          *)
(* uploaders keep their file between runs; every Python name of the        *)
(* script is rebound from scratch by each run.                             *)
(*                                                                         *)
(* The script has four tabs, executed in order: PFD, Control Plan, PFMEA   *)
(* and Consistency Checker.  Each tab is modelled by three steps: its      *)
(* uploader(s), reading and preview; its generate_content call; and        *)
(* json.loads with the rendering of the result.                            *)
(***************************************************************************)
EXTENDS Integers, Sequences, FiniteSets, TLC

VARIABLES
    environ,    \* os.environ.get("GENIE_API_KEY"): a key, or None when unset
    genai,      \* what the installed genai.Client does when it is given no key
    widgets,    \* the file held by each st.file_uploader (kept between runs)
    pc,         \* position of the script run; "idle": no run is executing
    trigger,    \* the kind of document whose upload started the run, or "-"
    py,         \* the script's Python names and the values bound to them
    rendered,   \* the elements the current run has put on the page, in order
    calls,      \* the generate_content calls the current run has issued
    exception   \* the uncaught exception that ended the run, or None

vars == <<environ, genai, widgets, pc, trigger, py, rendered, calls, exception>>

-----------------------------------------------------------------------------
(* Bounds of the model *)

\* At most this many uploaders hold a file at the same time.
MaxFiles == 4

-----------------------------------------------------------------------------
(* Values *)

None == [type |-> "None"]

Kinds == {"PFD", "ControlPlan", "PFMEA", "Consistency"}

\* The six st.file_uploader widgets.  The first has no key= in the source
\* and is named here after the variable it is assigned to.
UploaderKeys == {"uploaded_file", "cp", "pfmea", "cons_pfd", "cons_cp", "cons_pfmea"}

\* The tab each uploader is placed in.
TabOf(u) ==
    CASE u = "uploaded_file" -> "PFD"
      [] u = "cp" -> "ControlPlan"
      [] u = "pfmea" -> "PFMEA"
      [] OTHER -> "Consistency"

\* The uploaders of a tab, in source order.
UploadersOf(k) ==
    CASE k = "PFD" -> <<"uploaded_file">>
      [] k = "ControlPlan" -> <<"cp">>
      [] k = "PFMEA" -> <<"pfmea">>
      [] OTHER -> <<"cons_pfd", "cons_cp", "cons_pfmea">>

\* A parsed table (pandas DataFrame): ordered columns, ordered rows of cells.
Table1 == [type |-> "DataFrame", columns |-> <<"step", "pfmea_ref">>,
           rows |-> << <<"10", "FM-1">>, <<"20", "">> >>]

\* Uploaded files: a name (stem, extension) and the bytes, described by the
\* format they are in and the table they encode.  FileCsv is a readable
\* CSV file, FileBad a spreadsheet no reader can parse.
FileCsv == [type |-> "UploadedFile", name |-> <<"a", ".csv">>,
            bytes |-> [format |-> "csv", table |-> Table1]]
FileBad == [type |-> "UploadedFile", name |-> <<"c", ".xlsx">>,
            bytes |-> [format |-> "garbage", table |-> None]]

Files == {FileCsv, FileBad}

\* uploaded.name.endswith(".csv")
EndsWithCsv(f) == f.name[Len(f.name)] = ".csv"

\* pd.read_csv / pd.read_excel: the table, or None when the reader raises.
read_csv(f) == IF f.bytes.format = "csv" THEN f.bytes.table ELSE None
read_excel(f) == IF f.bytes.format = "xlsx" THEN f.bytes.table ELSE None

\* pd.read_csv(f) if f.name.endswith(".csv") else pd.read_excel(f)
ReadUpload(f) == IF EndsWithCsv(f) THEN read_csv(f) ELSE read_excel(f)

\* df.head(): the first HeadRows rows.
HeadRows == 5
head(df) ==
    [df EXCEPT !.rows = SubSeq(df.rows, 1,
                               IF Len(df.rows) < HeadRows THEN Len(df.rows) ELSE HeadRows)]

\* df.to_csv(index=False): the header line, then one line per row; a text is
\* the sequence of its lines, a line the sequence of its fields.
to_csv(df) == <<df.columns>> \o df.rows

\* The f-string of the consistency tab: the three serialized documents under
\* their delimiters (a delimiter is a line of one field, << >> an empty line).
CombinedText(pfd_text, cp_text, pfmea_text) ==
    << << >>, <<"=== PFD ===">> >> \o pfd_text \o
    << << >>, << >>, <<"=== CONTROL PLAN ===">> >> \o cp_text \o
    << << >>, << >>, <<"=== PFMEA ===">> >> \o pfmea_text \o
    << << >> >>

-----------------------------------------------------------------------------
(* JSON values, schemas and texts *)

JStr(s) == [type |-> "string", val |-> s]
JInt(n) == [type |-> "integer", val |-> n]
JNum(n) == [type |-> "number", val |-> n]
JArr(items) == [type |-> "array", items |-> items]
JObj(fields) == [type |-> "object", fields |-> fields]

SStr == [type |-> "string"]
SInt == [type |-> "integer"]
SNum == [type |-> "number"]
SArr(items) == [type |-> "array", items |-> items]
SObj(properties, required) ==
    [type |-> "object", properties |-> properties, required |-> required]

pfd_prompt == "Analyze the provided Process Flow Diagram (PFD)."
cp_prompt == "Analyze the provided Control Plan (CP)."
pfmea_prompt == "Analyze the provided PFMEA."
consistency_prompt ==
    "Check the consistency between Process Flow Diagram (PFD), Control Plan (CP), and PFMEA."

pfd_schema ==
    SObj([summary |->
            SObj([product_outline |-> SStr,
                  total_steps |-> SInt,
                  machines_tools_list |-> SArr(SStr),
                  special_characteristics_count |-> SInt,
                  pfmea_refs |-> SArr(SStr),
                  control_plan_refs |-> SArr(SStr)],
                 {"product_outline", "total_steps", "machines_tools_list",
                  "special_characteristics_count", "pfmea_refs", "control_plan_refs"}),
          missed_points |->
            SArr(SObj([issue |-> SStr, severity |-> SStr,
                       row_content |-> SStr, suggestion |-> SStr],
                      {"issue", "severity", "row_content", "suggestion"}))],
         {"summary", "missed_points"})

cp_schema ==
    SObj([summary |->
            SObj([product_outline |-> SStr,
                  total_control_items |-> SInt,
                  safe_launch_controls |->
                      SObj([count |-> SInt, description |-> SStr], {}),
                  ownership_clarity |-> SStr,
                  automation_readiness |-> SStr],
                 {"product_outline", "total_control_items", "safe_launch_controls",
                  "ownership_clarity", "automation_readiness"}),
          missed_points |->
            SArr(SObj([issue |-> SStr, severity |-> SStr,
                       row_number |-> SInt, suggestion |-> SStr],
                      {"issue", "severity", "row_number", "suggestion"}))],
         {"summary", "missed_points"})

pfmea_schema ==
    SObj([summary |->
            SObj([product_outline |-> SStr,
                  total_failure_modes |-> SInt,
                  high_rpn_count |-> SInt,
                  action_priority_summary |->
                      SObj([high |-> SInt, medium |-> SInt, low |-> SInt], {}),
                  linkage_to_pfd |-> SStr,
                  linkage_to_control_plan |-> SStr],
                 {"product_outline", "total_failure_modes", "high_rpn_count",
                  "action_priority_summary", "linkage_to_pfd", "linkage_to_control_plan"}),
          missed_points |->
            SArr(SObj([issue |-> SStr, severity |-> SStr,
                       row_number |-> SInt, suggestion |-> SStr],
                      {"issue", "severity", "row_number", "suggestion"}))],
         {"summary", "missed_points"})

consistency_schema ==
    SObj([summary |->
            SObj([total_pfd_steps |-> SInt,
                  total_cp_controls |-> SInt,
                  total_pfmea_entries |-> SInt,
                  linked_pfd_to_cp |-> SInt,
                  linked_cp_to_pfmea |-> SInt,
                  linkage_completeness |-> SNum],
                 {"total_pfd_steps", "total_cp_controls", "total_pfmea_entries",
                  "linked_pfd_to_cp", "linked_cp_to_pfmea", "linkage_completeness"}),
          missing_links |->
            SArr(SObj([from_document |-> SStr, missing_in |-> SStr,
                       row_number |-> SInt, description |-> SStr, suggestion |-> SStr],
                      {"from_document", "missing_in", "row_number",
                       "description", "suggestion"}))],
         {"summary", "missing_links"})

\* The prompt and the schema each tab passes to generate_content.
PromptOf(k) ==
    CASE k = "PFD" -> pfd_prompt
      [] k = "ControlPlan" -> cp_prompt
      [] k = "PFMEA" -> pfmea_prompt
      [] OTHER -> consistency_prompt

SchemaOf(k) ==
    CASE k = "PFD" -> pfd_schema
      [] k = "ControlPlan" -> cp_schema
      [] k = "PFMEA" -> pfmea_schema
      [] OTHER -> consistency_schema

\* The member of a result that holds the findings.
ArrayKeyOf(k) == IF k = "Consistency" THEN "missing_links" ELSE "missed_points"

\* A JSON value satisfies a schema: the type agrees (an integer is a number),
\* an object has every required member and each known member satisfies its
\* property's schema, every item of an array satisfies the items schema.
RECURSIVE Validates(_, _)
Validates(schema, v) ==
    CASE schema.type = "object" ->
            /\ v.type = "object"
            /\ schema.required \subseteq DOMAIN v.fields
            /\ \A f \in (DOMAIN v.fields) \cap (DOMAIN schema.properties) :
                   Validates(schema.properties[f], v.fields[f])
      [] schema.type = "array" ->
            /\ v.type = "array"
            /\ \A i \in DOMAIN v.items : Validates(schema.items, v.items[i])
      [] schema.type = "number" -> v.type \in {"number", "integer"}
      [] OTHER -> v.type = schema.type

\* A text is the sequence of its lines (to_csv) or, for a text exchanged with
\* the capability or offered for download, what a JSON parser makes of it.
JsonText(v, indent) == [type |-> "text", json |-> TRUE, value |-> v, indent |-> indent]
NotJsonText == [type |-> "text", json |-> FALSE, value |-> None, indent |-> 0]

\* json.loads(text): the value, or None when it raises JSONDecodeError.
json_loads(text) == IF text.json THEN text.value ELSE None

\* json.dumps(value, indent=2)
DumpIndent == 2
json_dumps(v) == JsonText(v, DumpIndent)

-----------------------------------------------------------------------------
(* The LLM capability *)

\* A result that satisfies the schema of kind k, with n findings.
Summary(k) ==
    CASE k = "PFD" ->
            JObj([product_outline |-> JStr("bracket"),
                  total_steps |-> JInt(2),
                  machines_tools_list |-> JArr(<<JStr("press")>>),
                  special_characteristics_count |-> JInt(0),
                  pfmea_refs |-> JArr(<<JStr("FM-1")>>),
                  control_plan_refs |-> JArr(<< >>)])
      [] k = "ControlPlan" ->
            JObj([product_outline |-> JStr("bracket"),
                  total_control_items |-> JInt(2),
                  safe_launch_controls |->
                      JObj([count |-> JInt(0), description |-> JStr("none")]),
                  ownership_clarity |-> JStr("Yes"),
                  automation_readiness |-> JStr("No")])
      [] k = "PFMEA" ->
            JObj([product_outline |-> JStr("bracket"),
                  total_failure_modes |-> JInt(2),
                  high_rpn_count |-> JInt(1),
                  action_priority_summary |->
                      JObj([high |-> JInt(1), medium |-> JInt(1), low |-> JInt(0)]),
                  linkage_to_pfd |-> JStr("Yes"),
                  linkage_to_control_plan |-> JStr("No")])
      [] OTHER ->
            JObj([total_pfd_steps |-> JInt(2),
                  total_cp_controls |-> JInt(0),
                  total_pfmea_entries |-> JInt(2),
                  linked_pfd_to_cp |-> JInt(0),
                  linked_cp_to_pfmea |-> JInt(0),
                  linkage_completeness |-> JNum(0)])

Finding(k, i) ==
    CASE k = "PFD" ->
            JObj([issue |-> JStr("no PFMEA reference"), severity |-> JStr("high"),
                  row_content |-> JStr("20,"), suggestion |-> JStr("add reference")])
      [] k = "Consistency" ->
            JObj([from_document |-> JStr("PFD"), missing_in |-> JStr("CP"),
                  row_number |-> JInt(i), description |-> JStr("step without control"),
                  suggestion |-> JStr("add control")])
      [] OTHER ->
            JObj([issue |-> JStr("no owner"), severity |-> JStr("low"),
                  row_number |-> JInt(i), suggestion |-> JStr("name an owner")])

ValidResult(k, n) ==
    JObj((ArrayKeyOf(k) :> JArr([i \in 1..n |-> Finding(k, i)])) @@
         [summary |-> Summary(k)])

\* Parses as JSON but lacks the required array member.
MissingRequired(k) == JObj([summary |-> Summary(k)])

\* Parses as JSON but the array member holds a string.
WrongType(k) ==
    JObj((ArrayKeyOf(k) :> JStr("none found")) @@ [summary |-> Summary(k)])

\* The largest number of findings in a response of the model.
MaxFindings == 2

\* generate_content raises (network, authentication, quota, timeout).
APIError == [type |-> "APIError"]

Response(text) == [type |-> "GenerateContentResponse", text |-> text]

\* What a generate_content call for kind k can do: raise, or return a
\* response whose text is not JSON, is a result satisfying the schema, or is
\* JSON that violates the schema.
Responses(k) ==
    {APIError, Response(NotJsonText)} \cup
    {Response(JsonText(v, 0)) :
        v \in {ValidResult(k, 0), ValidResult(k, MaxFindings),
               MissingRequired(k), WrongType(k)}}

\* genai.Client(api_key=...): with a key the client is constructed.  With
\* api_key None the script itself checks nothing: whether the constructor
\* raises or hands back a client without a credential is up to the
\* installed library, and the same in every run.
Key == [type |-> "str", val |-> "secret"]
Libraries == {"raises", "constructed"}
ClientOutcome(key, library) ==
    IF key = None THEN library ELSE "constructed"

\* What a call through the client can do: without a credential the service
\* refuses the request and the call raises.
CallOutcomes(client, k) ==
    IF client.api_key = None THEN {APIError} ELSE Responses(k)

-----------------------------------------------------------------------------
(* The script run *)

Unbound == [type |-> "unbound"]

PyNames ==
    {"api_key", "client",
     "uploaded_file", "df", "content_text", "response", "result", "df_missed",
     "uploaded_cp", "df_cp", "response_cp", "cp_result",
     "uploaded_pfmea", "df_pfmea", "response_pfmea", "pfmea_result",
     "uploaded_pfd", "df_pfd", "pfd_text", "cp_text", "pfmea_text", "combined_text",
     "response_consistency", "consistency_result"}

\* An element on the page.
Element(tab, el, data) == [tab |-> tab, el |-> el, data |-> data]

\* A script run starts: nothing is bound, nothing is on the page.
StartRun(why) ==
    /\ pc' = "start"
    /\ trigger' = why
    /\ py' = [n \in PyNames |-> Unbound]
    /\ rendered' = << >>
    /\ calls' = << >>
    /\ exception' = None

\* An exception nobody catches: the run ends and Streamlit shows the
\* exception below what the run (page) has rendered so far.
Uncaught(tab, excType, page) ==
    /\ exception' = [type |-> excType, tab |-> tab]
    /\ rendered' = Append(page, Element(tab, "exception", JStr(excType)))
    /\ pc' = "idle"

\* With the key set the two libraries do not differ; one stands for both.
Init ==
    /\ environ \in {None, Key}
    /\ genai \in IF environ = None THEN Libraries ELSE {"constructed"}
    /\ widgets = [u \in UploaderKeys |-> None]
    /\ pc = "start"
    /\ trigger = "-"
    /\ py = [n \in PyNames |-> Unbound]
    /\ rendered = << >>
    /\ calls = << >>
    /\ exception = None

\* Lines 8-9 and 262-268: the key is read, the client constructed, the
\* title and the four tabs rendered.
Startup ==
    /\ pc = "start"
    /\ IF ClientOutcome(environ, genai) = "raises"
       THEN /\ Uncaught("startup", "ValueError", rendered)
            /\ py' = [py EXCEPT !["api_key"] = environ]
       ELSE /\ py' = [py EXCEPT !["api_key"] = environ,
                                !["client"] = [type |-> "Client", api_key |-> environ]]
            /\ rendered' = rendered \o
                   <<Element("page", "title", None), Element("page", "tabs", None)>>
            /\ pc' = "pfd_upload"
            /\ UNCHANGED exception
    /\ UNCHANGED <<environ, genai, widgets, trigger, calls>>

\* A single-document tab up to its call: the uploader is rendered; when it
\* holds a file the file is read, its first rows previewed and the table
\* serialized.
UploadStep(k, here, key, fileVar, dfVar, callPc, nextPc) ==
    /\ pc = here
    /\ LET f == widgets[key]
           page == Append(rendered, Element(k, "file_uploader", JStr(key)))
       IN IF f = None
          THEN /\ py' = [py EXCEPT ![fileVar] = f]
               /\ rendered' = page
               /\ pc' = nextPc
               /\ UNCHANGED exception
          ELSE LET table == ReadUpload(f)
               IN IF table = None
                  THEN /\ py' = [py EXCEPT ![fileVar] = f]
                       /\ Uncaught(k, "ParserError", page)
                  ELSE /\ py' = [py EXCEPT ![fileVar] = f,
                                           ![dfVar] = table,
                                           !["content_text"] = to_csv(table)]
                       /\ rendered' = Append(page, Element(k, "dataframe", head(table)))
                       /\ pc' = callPc
                       /\ UNCHANGED exception
    /\ UNCHANGED <<environ, genai, widgets, trigger, calls>>

\* The record of one generate_content call.
Call(k, prompt, text, schema) ==
    [tab |-> k, model |-> "gemini-1.5-flash", prompt |-> prompt, text |-> text,
     schema |-> schema]

\* CallStep with a retry: a call that raises is issued once more.
CallStepRetry(k, here, prompt, textVar, schema, respVar, nextPc) ==
    /\ pc = here
    /\ \E r1 \in CallOutcomes(py["client"], k) :
          IF r1 = APIError
          THEN /\ calls' = calls \o <<Call(k, prompt, py[textVar], schema),
                                      Call(k, prompt, py[textVar], schema)>>
               /\ \E r2 \in CallOutcomes(py["client"], k) :
                     IF r2 = APIError
                     THEN /\ Uncaught(k, "APIError", rendered)
                          /\ UNCHANGED py
                     ELSE /\ py' = [py EXCEPT ![respVar] = r2]
                          /\ pc' = nextPc
                          /\ UNCHANGED <<rendered, exception>>
          ELSE /\ calls' = Append(calls, Call(k, prompt, py[textVar], schema))
               /\ py' = [py EXCEPT ![respVar] = r1]
               /\ pc' = nextPc
               /\ UNCHANGED <<rendered, exception>>
    /\ UNCHANGED <<environ, genai, widgets, trigger>>

\* client.models.generate_content(...): one call, which raises or returns.
CallStep(k, here, prompt, textVar, schema, respVar, nextPc) ==
    /\ pc = here
    /\ calls' = Append(calls, Call(k, prompt, py[textVar], schema))
    /\ \E r \in CallOutcomes(py["client"], k) :
          IF r = APIError
          THEN /\ Uncaught(k, "APIError", rendered)
               /\ UNCHANGED py
          ELSE /\ py' = [py EXCEPT ![respVar] = r]
               /\ pc' = nextPc
               /\ UNCHANGED <<rendered, exception>>
    /\ UNCHANGED <<environ, genai, widgets, trigger>>

\* result.get("missed_points")
Get(obj, member) ==
    IF member \in DOMAIN obj.fields THEN obj.fields[member] ELSE None

\* Python truth of a JSON value or None.
Truthy(v) ==
    CASE v = None -> FALSE
      [] v.type = "array" -> Len(v.items) > 0
      [] v.type = "string" -> v.val # ""
      [] v.type \in {"integer", "number"} -> v.val # 0
      [] OTHER -> Cardinality(DOMAIN v.fields) > 0

\* pd.DataFrame(list of dicts): one row per element; None when it raises
\* (a string is no valid argument).
DataFrame(v) ==
    IF v.type = "array"
    THEN [type |-> "DataFrame",
          columns |-> UNION {DOMAIN v.items[i].fields : i \in DOMAIN v.items},
          rows |-> [i \in DOMAIN v.items |-> v.items[i].fields]]
    ELSE None

\* What a tab does with the parsed response: it is shown as JSON, (in the
\* PFD tab only) its missed points are shown as a table, and the result is
\* offered for download.
PresentParsed(k, v, resultVar, withTable, fileName, nextPc) ==
    LET page == rendered \o
            <<Element(k, "subheader", JStr("JSON Output")), Element(k, "json", v)>>
        points == Get(v, "missed_points")
        button == Element(k, "download_button",
                          [data |-> json_dumps(v), file_name |-> fileName])
    IN IF withTable /\ Truthy(points)
       THEN LET df_missed == DataFrame(points)
            IN IF df_missed = None
               THEN /\ Uncaught(k, "ValueError", page)
                    /\ py' = [py EXCEPT ![resultVar] = v]
               ELSE /\ py' = [py EXCEPT ![resultVar] = v, !["df_missed"] = df_missed]
                    /\ rendered' = page \o <<Element(k, "table", df_missed), button>>
                    /\ pc' = nextPc
                    /\ UNCHANGED exception
       ELSE /\ py' = [py EXCEPT ![resultVar] = v]
            /\ rendered' = Append(page, button)
            /\ pc' = nextPc
            /\ UNCHANGED exception

\* PresentStep with the parse error swallowed: the raw response text is
\* offered for download and the script goes on.
PresentStepLenient(k, here, respVar, resultVar, withTable, fileName, nextPc) ==
    /\ pc = here
    /\ LET v == json_loads(py[respVar].text)
       IN IF v = None
          THEN /\ rendered' = Append(rendered, Element(k, "download_button",
                                  [data |-> py[respVar].text, file_name |-> fileName]))
               /\ pc' = nextPc
               /\ UNCHANGED <<py, exception>>
          ELSE PresentParsed(k, v, resultVar, withTable, fileName, nextPc)
    /\ UNCHANGED <<environ, genai, widgets, trigger, calls>>

\* A tab after its call: the response text is parsed; a text that is no
\* JSON raises, a parsed result is presented.
PresentStep(k, here, respVar, resultVar, withTable, fileName, nextPc) ==
    /\ pc = here
    /\ LET v == json_loads(py[respVar].text)
       IN IF v = None
          THEN /\ Uncaught(k, "JSONDecodeError", rendered)
               /\ UNCHANGED py
          ELSE PresentParsed(k, v, resultVar, withTable, fileName, nextPc)
    /\ UNCHANGED <<environ, genai, widgets, trigger, calls>>

\* Lines 271-286
PfdUpload ==
    UploadStep("PFD", "pfd_upload", "uploaded_file", "uploaded_file", "df",
               "pfd_call", "cp_upload")

\* Lines 289-294
PfdCall ==
    CallStep("PFD", "pfd_call", pfd_prompt, "content_text", pfd_schema,
             "response", "pfd_present")

\* Lines 296-312
PfdPresent ==
    PresentStep("PFD", "pfd_present", "response", "result", TRUE,
                "pfd_analysis_output.json", "cp_upload")

\* CpUpload reading the consistency tab's Control Plan uploader.
CpUploadFromCons ==
    UploadStep("ControlPlan", "cp_upload", "cons_cp", "uploaded_cp", "df_cp",
               "cp_call", "pfmea_upload")

\* Lines 314-327
CpUpload ==
    UploadStep("ControlPlan", "cp_upload", "cp", "uploaded_cp", "df_cp",
               "cp_call", "pfmea_upload")

\* Lines 329-334
CpCall ==
    CallStep("ControlPlan", "cp_call", cp_prompt, "content_text", cp_schema,
             "response_cp", "cp_present")

\* Lines 336-345
CpPresent ==
    PresentStep("ControlPlan", "cp_present", "response_cp", "cp_result", FALSE,
                "control_plan_analysis_output.json", "pfmea_upload")

\* Lines 348-361
PfmeaUpload ==
    UploadStep("PFMEA", "pfmea_upload", "pfmea", "uploaded_pfmea", "df_pfmea",
               "pfmea_call", "cons_upload")

\* Lines 363-368
PfmeaCall ==
    CallStep("PFMEA", "pfmea_call", pfmea_prompt, "content_text", pfmea_schema,
             "response_pfmea", "pfmea_present")

\* Lines 370-379
PfmeaPresent ==
    PresentStep("PFMEA", "pfmea_present", "response_pfmea", "pfmea_result", FALSE,
                "pfmea_analysis_output.json", "cons_upload")

\* Lines 381-412: the three uploaders of the consistency tab; when all three
\* hold a file the files are read in the order PFD, Control Plan, PFMEA,
\* previewed, serialized and combined.
ConsUpload ==
    /\ pc = "cons_upload"
    /\ LET f_pfd == widgets["cons_pfd"]
           f_cp == widgets["cons_cp"]
           f_pfmea == widgets["cons_pfmea"]
           page == rendered \o
               <<Element("Consistency", "file_uploader", JStr("cons_pfd")),
                 Element("Consistency", "file_uploader", JStr("cons_cp")),
                 Element("Consistency", "file_uploader", JStr("cons_pfmea"))>>
           bound == [py EXCEPT !["uploaded_pfd"] = f_pfd,
                               !["uploaded_cp"] = f_cp,
                               !["uploaded_pfmea"] = f_pfmea]
       IN IF f_pfd = None \/ f_cp = None \/ f_pfmea = None
          THEN /\ py' = bound
               /\ rendered' = page
               /\ pc' = "idle"
               /\ UNCHANGED exception
          ELSE LET t_pfd == ReadUpload(f_pfd)
                   t_cp == ReadUpload(f_cp)
                   t_pfmea == ReadUpload(f_pfmea)
               IN IF t_pfd = None
                  THEN /\ py' = bound
                       /\ Uncaught("Consistency", "ParserError", page)
                  ELSE IF t_cp = None
                  THEN /\ py' = [bound EXCEPT !["df_pfd"] = t_pfd]
                       /\ Uncaught("Consistency", "ParserError", page)
                  ELSE IF t_pfmea = None
                  THEN /\ py' = [bound EXCEPT !["df_pfd"] = t_pfd, !["df_cp"] = t_cp]
                       /\ Uncaught("Consistency", "ParserError", page)
                  ELSE /\ py' = [bound EXCEPT
                                    !["df_pfd"] = t_pfd,
                                    !["df_cp"] = t_cp,
                                    !["df_pfmea"] = t_pfmea,
                                    !["pfd_text"] = to_csv(t_pfd),
                                    !["cp_text"] = to_csv(t_cp),
                                    !["pfmea_text"] = to_csv(t_pfmea),
                                    !["combined_text"] =
                                        CombinedText(to_csv(t_pfd), to_csv(t_cp),
                                                     to_csv(t_pfmea))]
                       /\ rendered' = page \o
                              <<Element("Consistency", "dataframe", head(t_pfd)),
                                Element("Consistency", "dataframe", head(t_cp)),
                                Element("Consistency", "dataframe", head(t_pfmea))>>
                       /\ pc' = "cons_call"
                       /\ UNCHANGED exception
    /\ UNCHANGED <<environ, genai, widgets, trigger, calls>>

\* Lines 414-419
ConsCall ==
    CallStep("Consistency", "cons_call", consistency_prompt, "combined_text",
             consistency_schema, "response_consistency", "cons_present")

\* Lines 421-430; the script ends here.
ConsPresent ==
    PresentStep("Consistency", "cons_present", "response_consistency",
                "consistency_result", FALSE, "consistency_analysis_output.json", "idle")

-----------------------------------------------------------------------------
(* The user *)

\* The user acts on the page the finished (or failed) run has left; the
\* run such an action starts is remembered by the kind of document the action
\* uploaded ("-" for any other start).

Held == {u \in UploaderKeys : widgets[u] # None}

\* The user puts a file into an uploader: the script runs again.
UserUpload ==
    /\ pc = "idle"
    /\ \E u \in UploaderKeys, f \in Files :
        /\ Cardinality(Held \cup {u}) <= MaxFiles
        /\ widgets' = [widgets EXCEPT ![u] = f]
        /\ StartRun(TabOf(u))
    /\ UNCHANGED <<environ, genai>>

\* The user takes the file out of an uploader: the script runs again.
UserRemove ==
    /\ pc = "idle"
    /\ \E u \in Held : widgets' = [widgets EXCEPT ![u] = None]
    /\ StartRun("-")
    /\ UNCHANGED <<environ, genai>>

\* The user asks for a rerun of the script.
UserRerun ==
    /\ pc = "idle"
    /\ StartRun("-")
    /\ UNCHANGED <<environ, genai, widgets>>

Next ==
    \/ Startup
    \/ PfdUpload \/ PfdCall \/ PfdPresent
    \/ CpUpload \/ CpCall \/ CpPresent
    \/ PfmeaUpload \/ PfmeaCall \/ PfmeaPresent
    \/ ConsUpload \/ ConsCall \/ ConsPresent
    \/ UserUpload \/ UserRemove \/ UserRerun

Spec == Init /\ [][Next]_vars

-----------------------------------------------------------------------------
(* What a run has done, read off the state *)

\* The names the tab of kind k binds its response and its result to.
RespVar(k) ==
    CASE k = "PFD" -> "response"
      [] k = "ControlPlan" -> "response_cp"
      [] k = "PFMEA" -> "response_pfmea"
      [] OTHER -> "response_consistency"

ResultVar(k) ==
    CASE k = "PFD" -> "result"
      [] k = "ControlPlan" -> "cp_result"
      [] k = "PFMEA" -> "pfmea_result"
      [] OTHER -> "consistency_result"

\* The number of generate_content calls the run has issued in tab k.
CallsOf(k) == Cardinality({i \in DOMAIN calls : calls[i].tab = k})

\* The elements of a given sort the run has rendered in tab k.
Shown(k, el) == {i \in DOMAIN rendered : rendered[i].tab = k /\ rendered[i].el = el}
Has(k, el) == Shown(k, el) # {}

\* Every uploader of tab k holds a file / a file its reader can parse.
Uploaded(k) == \A i \in DOMAIN UploadersOf(k) : widgets[UploadersOf(k)[i]] # None
Readable(k) ==
    /\ Uploaded(k)
    /\ \A i \in DOMAIN UploadersOf(k) : ReadUpload(widgets[UploadersOf(k)[i]]) # None

\* The call of tab k raised / returned a text that is no JSON / returned JSON.
CallRaised(k) == CallsOf(k) > 0 /\ py[RespVar(k)] = Unbound
Unparseable(k) ==
    /\ py[RespVar(k)] # Unbound
    /\ json_loads(py[RespVar(k)].text) = None
Parsed(k) ==
    /\ py[RespVar(k)] # Unbound
    /\ json_loads(py[RespVar(k)].text) # None

\* The text tab k has to send: its own upload serialized, for the
\* consistency tab its three uploads under their delimiters.
OwnText(k) ==
    IF k = "Consistency"
    THEN CombinedText(to_csv(ReadUpload(widgets["cons_pfd"])),
                      to_csv(ReadUpload(widgets["cons_cp"])),
                      to_csv(ReadUpload(widgets["cons_pfmea"])))
    ELSE to_csv(ReadUpload(widgets[UploadersOf(k)[1]]))

\* The failure category an uncaught exception stands for.
Category(excType) ==
    CASE excType = "APIError" -> "TransportFailure"
      [] excType = "JSONDecodeError" -> "MalformedOutput"
      [] excType = "ParserError" -> "UploadParseError"
      [] OTHER -> "uncategorized"

\* The run has shown the user a failure of kind k of the given category.
Surfaced(k, category) ==
    /\ exception # None
    /\ exception.tab = k
    /\ Category(exception.type) = category
    /\ Has(k, "exception")

-----------------------------------------------------------------------------
(* Claims *)

\* C1: within one script run no kind's generate_content call is made more
\* than once, a kind whose result is shown has had exactly one call, and
\* once a call has raised or returned unparseable text nothing but a new
\* run started by the user issues a call again.
C1_OneCallNoRetry ==
    [][/\ \A k \in Kinds :
            /\ CallsOf(k)' <= 1
            /\ Has(k, "json")' => CallsOf(k)' = 1
       /\ (\E k \in Kinds : CallRaised(k) \/ Unparseable(k)) /\ pc' # "start"
              => calls' = calls]_vars

\* A run in which the PFD call succeeded and the Control Plan call raised.
C1_Witness ==
    /\ pc = "idle"
    /\ CallRaised("ControlPlan")
    /\ CallsOf("ControlPlan") = 1
    /\ Has("PFD", "json")
    /\ CallsOf("PFD") = 1

\* C2 (as claimed): in the run an upload of a document of one kind starts,
\* only that kind's call is issued.
C2_OnlyUploadedKindCalled ==
    trigger \in Kinds => \A i \in DOMAIN calls : calls[i].tab = trigger

\* C3 (as claimed): when the run has ended in a failure of one kind, every
\* other kind with a readable upload has its preview, its call, its result
\* and its download button.
C3_FailureIsolated ==
    (pc = "idle" /\ exception # None /\ exception.tab \in Kinds) =>
        \A k \in Kinds \ {exception.tab} :
            Readable(k) =>
                /\ Has(k, "dataframe")
                /\ CallsOf(k) = 1
                /\ Has(k, "json")
                /\ Has(k, "download_button")

\* C4 (as claimed): a result is shown as JSON output or offered for download
\* only if it validates against the schema of its kind.
C4_OnlyValidPresented ==
    \A k \in Kinds :
        (Has(k, "json") \/ Has(k, "download_button")) =>
            Validates(SchemaOf(k), py[ResultVar(k)])

\* C5 (as claimed): a call that raised is surfaced as TransportFailure, an
\* unparseable response as MalformedOutput, and a parsed response that
\* violates the schema, once the tab has dealt with it, as SchemaViolation.
C5_FailuresDistinguished ==
    \A k \in Kinds :
        /\ CallRaised(k) => Surfaced(k, "TransportFailure")
        /\ (Unparseable(k) /\ pc = "idle") => Surfaced(k, "MalformedOutput")
        /\ (py[ResultVar(k)] # Unbound /\ ~Validates(SchemaOf(k), py[ResultVar(k)]))
               => Surfaced(k, "SchemaViolation")

\* C6: a kind whose call raised or whose response does not parse has no
\* result, no JSON output and no download button; a download button is
\* rendered only with the result the run obtained from the kind's one call.
C6_NoExportOnFailure ==
    \A k \in Kinds :
        /\ (CallRaised(k) \/ Unparseable(k)) =>
               /\ py[ResultVar(k)] = Unbound
               /\ ~Has(k, "json")
               /\ ~Has(k, "download_button")
        /\ Has(k, "download_button") =>
               /\ CallsOf(k) = 1
               /\ Parsed(k)
               /\ py[ResultVar(k)] = json_loads(py[RespVar(k)].text)
               /\ \A i \in Shown(k, "download_button") :
                      rendered[i].data.data = json_dumps(py[ResultVar(k)])

\* A run in which the PFD result is offered for download and the Control
\* Plan response did not parse.
C6_Witness ==
    /\ pc = "idle"
    /\ Has("PFD", "download_button")
    /\ Unparseable("ControlPlan")
    /\ ~Has("ControlPlan", "download_button")

\* C7 (as claimed): no consistency call while one of the three consistency
\* uploaders is empty; a finished run that started with the credential and
\* with three readable consistency uploads has made exactly one consistency
\* call, whose text is the three documents in the order PFD, Control Plan,
\* PFMEA under their delimiters.
C7_ConsistencyCall ==
    /\ ~Uploaded("Consistency") => CallsOf("Consistency") = 0
    /\ (pc = "idle" /\ environ # None /\ Readable("Consistency")) =>
           /\ CallsOf("Consistency") = 1
           /\ \A i \in DOMAIN calls :
                  calls[i].tab = "Consistency" => calls[i].text = OwnText("Consistency")

\* C8 (as claimed): for every kind, a successful analysis with findings
\* shows a table with one row per finding, and the export holds the same
\* findings.
C8_TablePerFinding ==
    \A k \in Kinds :
        Has(k, "download_button") =>
            LET found == Get(py[ResultVar(k)], ArrayKeyOf(k))
            IN (found # None /\ found.type = "array" /\ Len(found.items) > 0) =>
                   /\ \E i \in Shown(k, "table") :
                          Len(rendered[i].data.rows) = Len(found.items)
                   /\ \A i \in Shown(k, "download_button") :
                          Get(json_loads(rendered[i].data.data), ArrayKeyOf(k)) = found

C10_OwnPayload ==
    \A i \in DOMAIN calls :
        LET k == calls[i].tab
        IN /\ Readable(k)
           /\ calls[i].prompt = PromptOf(k)
           /\ calls[i].schema = SchemaOf(k)
           /\ calls[i].text = OwnText(k)
           /\ Has(k, "dataframe")

\* A run with a Control Plan call and a consistency call while the PFMEA
\* tab's uploader is empty and the consistency tab's PFMEA uploader is not.
C10_Witness ==
    /\ CallsOf("ControlPlan") = 1
    /\ CallsOf("Consistency") = 1
    /\ widgets["pfmea"] = None
    /\ widgets["uploaded_file"] = None
    /\ py["uploaded_cp"] = widgets["cons_cp"]
    /\ py["uploaded_pfmea"] = widgets["cons_pfmea"]

====
